---------------------------- MODULE Spec2Model ----------------------------
(***************************************************************************)
(* Model of src/app.py: the module-level table df (loaded once), the       *)
(* filter_data function and the update_dashboard callback.                 *)
(*                                                                         *)
(* A table is a sequence of rows; a row is a record of the columns the     *)
(* callback reads.  Every numeric cell is a float64 value, modelled as a   *)
(* record [kind, n, d]: kind "fin" is the fraction n/d (d > 0, lowest      *)
(* terms), the other kinds are NaN, +inf and -inf.  A missing Distributor  *)
(* is the cell DNull (pandas stores NaN in the object column).             *)
(***************************************************************************)
EXTENDS Integers, Sequences, FiniteSets

VARIABLES df, sortKind, calls

vars == <<df, sortKind, calls>>

----------------------------------------------------------------------------
(* Bounds of the model.                                                    *)

\* longest variable part of a source table
MaxRows == 2

\* number of update_dashboard invocations that may be in flight at once
NumCalls == 2

----------------------------------------------------------------------------
(* float64 values and their arithmetic (IEEE: NaN is unordered, x/0 is     *)
(* +-inf, 0/0 and inf-inf are NaN).                                        *)

NaN == [kind |-> "nan", n |-> 0, d |-> 1]

PosInf == [kind |-> "posinf", n |-> 0, d |-> 1]

NegInf == [kind |-> "neginf", n |-> 0, d |-> 1]

Abs(x) == IF x < 0 THEN -x ELSE x

RECURSIVE GCD(_, _)
GCD(a, b) == IF b = 0 THEN a ELSE GCD(b, a % b)

\* the finite value n/d, d # 0, in lowest terms with a positive denominator
Frac(n, d) ==
    LET s == IF d < 0 THEN -1 ELSE 1
        g == GCD(Abs(n), Abs(d))
    IN  [kind |-> "fin", n |-> (s * n) \div g, d |-> (s * d) \div g]

Num(v) == [kind |-> "fin", n |-> v, d |-> 1]

IsNaN(x) == x.kind = "nan"

KindRank(x) == CASE x.kind = "neginf" -> 0
                 [] x.kind = "fin"    -> 1
                 [] x.kind = "posinf" -> 2
                 [] OTHER             -> 3

\* x < y on floats: FALSE as soon as either side is NaN
FLt(x, y) ==
    /\ ~IsNaN(x)
    /\ ~IsNaN(y)
    /\ IF x.kind = "fin" /\ y.kind = "fin"
       THEN x.n * y.d < y.n * x.d
       ELSE KindRank(x) < KindRank(y)

\* x == y on floats: FALSE as soon as either side is NaN
FEq(x, y) ==
    /\ ~IsNaN(x)
    /\ ~IsNaN(y)
    /\ x.kind = y.kind
    /\ (x.kind = "fin" => x.n * y.d = y.n * x.d)

FLe(x, y) == FLt(x, y) \/ FEq(x, y)

FGe(x, y) == FLe(y, x)

FNeg(x) == CASE x.kind = "fin"    -> Frac(-x.n, x.d)
             [] x.kind = "posinf" -> NegInf
             [] x.kind = "neginf" -> PosInf
             [] OTHER             -> NaN

FAdd(x, y) ==
    CASE IsNaN(x) \/ IsNaN(y) -> NaN
      [] x.kind = "fin" /\ y.kind = "fin" -> Frac(x.n * y.d + y.n * x.d, x.d * y.d)
      [] x.kind = "fin" -> y
      [] y.kind = "fin" -> x
      [] x.kind = y.kind -> x
      [] OTHER -> NaN

FSub(x, y) == FAdd(x, FNeg(y))

FDiv(x, y) ==
    CASE IsNaN(x) \/ IsNaN(y) -> NaN
      [] x.kind = "fin" /\ y.kind = "fin" ->
            IF y.n # 0 THEN Frac(x.n * y.d, x.d * y.n)
            ELSE IF x.n > 0 THEN PosInf
            ELSE IF x.n < 0 THEN NegInf
            ELSE NaN
      [] x.kind = "fin" -> Num(0)
      [] y.kind = "fin" -> IF y.n >= 0 THEN x ELSE FNeg(x)
      [] OTHER -> NaN

----------------------------------------------------------------------------
(* The source table: load and derived columns (app.py lines 9-27).         *)

\* a missing Distributor cell
DNull == "NaN"

\* an unparseable ReleaseDateUS (NaT)
NaT == [nat |-> TRUE, year |-> 0]

Date(y) == [nat |-> FALSE, year |-> y]

\* df["Year"] = df["ReleaseDateUS"].dt.year
YearOf(date) == IF date.nat THEN NaN ELSE Num(date.year)

\* df["ROI"] = (df["Worldwide"] - df["Budget"]) / df["Budget"]
RoiOf(worldwide, budget) == FDiv(FSub(worldwide, budget), budget)

\* one row of df after the numeric coercion, with its two derived columns
MakeRow(title, distributor, date, budget, opening, worldwide) ==
    [Title |-> title, Distributor |-> distributor, ReleaseDateUS |-> date,
     Year |-> YearOf(date), Budget |-> budget,
     OpeningWeekendNorthAmerica |-> opening, Worldwide |-> worldwide,
     ROI |-> RoiOf(worldwide, budget)]

\* the values of one column, in row order
Column(t, col) == [i \in DOMAIN t |-> t[i][col]]

\* Series.unique(): the distinct cells of a column, NaN included
Unique(t, col) == {t[i][col] : i \in DOMAIN t}

\* sorted(df["Distributor"].unique()) raises TypeError when it has to compare
\* a NaN cell (a float) with a name (a str); a single value is never compared
DistributorOptionsOk(t) ==
    LET u == Unique(t, "Distributor")
    IN  Cardinality(u) <= 1 \/ DNull \notin u

\* names in the order Python's str comparison gives them
NameOrder == <<"A", "B", "C">>

NameRank(name) == CHOOSE k \in DOMAIN NameOrder : NameOrder[k] = name

\* distributor_options: the distinct Distributor cells in sorted order
DistributorOptions(t) ==
    LET u == Unique(t, "Distributor")
        names == u \ {DNull}
        pos(k) == 1 + Cardinality({o \in names : NameRank(o) < NameRank(k)})
    IN  IF u = {DNull} THEN <<DNull>>
        ELSE [p \in 1..Cardinality(names) |-> CHOOSE k \in names : pos(k) = p]

\* int(df["Year"].min()), int(df["Year"].max()) and int(y) for every distinct
\* Year raise ValueError on NaN: min() of no value is NaN, and unique() keeps NaN
YearSliderOk(t) ==
    /\ \E i \in DOMAIN t : ~IsNaN(t[i].Year)
    /\ \A i \in DOMAIN t : ~IsNaN(t[i].Year)

\* the module body runs to its end, so the callbacks exist
LayoutOk(t) == DistributorOptionsOk(t) /\ YearSliderOk(t)

----------------------------------------------------------------------------
(* pandas operations used by the callbacks.                                *)

RECURSIVE SumFrom(_, _)
SumFrom(s, k) ==
    IF k > Len(s) THEN Num(0)
    ELSE IF IsNaN(s[k]) THEN SumFrom(s, k + 1)
    ELSE FAdd(s[k], SumFrom(s, k + 1))

\* variant: sum(min_count=1), NaN for no cells
SumMinCount(s) ==
    IF \A i \in DOMAIN s : IsNaN(s[i]) THEN NaN ELSE SumFrom(s, 1)

\* Series.sum(): NaN cells skipped, 0 for no cells
Sum(s) == SumFrom(s, 1)

\* the number of non-NaN cells
Count(s) == Cardinality({i \in DOMAIN s : ~IsNaN(s[i])})

\* Series.mean(): NaN cells skipped, NaN for no cells
Mean(s) == IF Count(s) = 0 THEN NaN ELSE FDiv(Sum(s), Num(Count(s)))

\* Series.max(): NaN cells skipped, NaN for no cells
Max(s) ==
    IF Count(s) = 0 THEN NaN
    ELSE LET i == CHOOSE i \in DOMAIN s :
                    /\ ~IsNaN(s[i])
                    /\ \A j \in DOMAIN s : ~IsNaN(s[j]) => FLe(s[j], s[i])
         IN  s[i]

\* Series.nunique() of a column without missing cells (Title)
NUnique(t, col) == Cardinality(Unique(t, col))

\* where row i goes before row j in sort_values(col, ascending=False): larger
\* key first, NaN keys last in their original order; equal keys in their
\* original order under a stable argsort, in the opposite order otherwise
BeforeDesc(t, col, kind, i, j) ==
    LET a == t[i][col]
        b == t[j][col]
    IN  IF IsNaN(a) THEN IsNaN(b) /\ i < j
        ELSE IF IsNaN(b) THEN TRUE
        ELSE \/ FLt(b, a)
             \/ FEq(a, b) /\ (IF kind = "stable" THEN i < j ELSE j < i)

\* DataFrame.sort_values(col, ascending=False)
SortValuesDesc(t, col, kind) ==
    LET pos(i) == 1 + Cardinality({j \in DOMAIN t : j # i /\ BeforeDesc(t, col, kind, j, i)})
    IN  [p \in DOMAIN t |-> t[CHOOSE i \in DOMAIN t : pos(i) = p]]

\* DataFrame.head(n)
HeadRows(t, n) == IF Len(t) <= n THEN t ELSE SubSeq(t, 1, n)

\* the rows of t whose cell in col equals key
RowsWith(t, col, key) == SelectSeq(t, LAMBDA r : r[col] = key)

\* dff.groupby("Distributor", as_index=False)["Worldwide"].sum(): one row per
\* non-missing key, keys ascending, each with the NaN-skipping sum of its rows
GroupByDistributor(t) ==
    LET keys == Unique(t, "Distributor") \ {DNull}
        pos(k) == 1 + Cardinality({o \in keys : NameRank(o) < NameRank(k)})
    IN  [p \in 1..Cardinality(keys) |->
            LET k == CHOOSE k \in keys : pos(k) = p
            IN  [Distributor |-> k,
                 Worldwide |-> Sum(Column(RowsWith(t, "Distributor", k), "Worldwide"))]]

\* variant: groupby(sort=False), keys in the order of their first row
GroupByYearUnsorted(t) ==
    LET keys == {y \in Unique(t, "Year") : ~IsNaN(y)}
        first(k) == CHOOSE i \in DOMAIN t :
                        t[i].Year = k /\ \A j \in 1..(i - 1) : t[j].Year # k
        pos(k) == 1 + Cardinality({o \in keys : first(o) < first(k)})
    IN  [p \in 1..Cardinality(keys) |->
            LET k == CHOOSE k \in keys : pos(k) = p
            IN  [Year |-> k,
                 Worldwide |-> Sum(Column(RowsWith(t, "Year", k), "Worldwide"))]]

\* dff.groupby("Year", as_index=False)["Worldwide"].sum()
GroupByYear(t) ==
    LET keys == {y \in Unique(t, "Year") : ~IsNaN(y)}
        pos(k) == 1 + Cardinality({o \in keys : FLt(o, k)})
    IN  [p \in 1..Cardinality(keys) |->
            LET k == CHOOSE k \in keys : pos(k) = p
            IN  [Year |-> k,
                 Worldwide |-> Sum(Column(RowsWith(t, "Year", k), "Worldwide"))]]

----------------------------------------------------------------------------
(* filter_data and the body of update_dashboard.                           *)

\* a Python argument that is None, and one that is a list
None == [none |-> TRUE, val |-> <<>>]

List(s) == [none |-> FALSE, val |-> s]

\* bool(x) of None or a list
Truthy(x) == ~x.none /\ Len(x.val) > 0

\* Series.isin(values) on one cell
Isin(cell, values) == \E k \in DOMAIN values : values[k] = cell

\* variant: "if distributors is not None", so that an empty list selects
DistributorCheckNotNone(distributors) == ~distributors.none

\* if distributors:
DistributorCheck(distributors) == Truthy(distributors)

\* variant: "if year_range:", so that year_range[1] of a one-bound list raises
YearRangeCheckNoLen(year_range) ==
    IF Truthy(year_range)
    THEN (IF Len(year_range.val) >= 2 THEN "apply" ELSE "raise")
    ELSE "skip"

\* if year_range and len(year_range) == 2: "apply" takes the branch, "skip"
\* does not, "raise" is an exception of the condition or of the indexing
YearRangeCheck(year_range) ==
    IF Truthy(year_range)
    THEN (IF Len(year_range.val) = 2 THEN "apply" ELSE "skip")
    ELSE "skip"

\* variant: the upper bound taken as exclusive
YearMaskStrict(row, lo, hi) == FGe(row.Year, Num(lo)) /\ FLt(row.Year, Num(hi))

\* (dff["Year"] >= year_range[0]) & (dff["Year"] <= year_range[1]) on one row
YearMask(row, lo, hi) == FGe(row.Year, Num(lo)) /\ FLe(row.Year, Num(hi))

\* the rows filter_data returns, or that it raised
filter_data(table, distributors, year_range) ==
    LET copy == table
        byDist == IF DistributorCheck(distributors)
                  THEN SelectSeq(copy, LAMBDA r : Isin(r.Distributor, distributors.val))
                  ELSE copy
        check == YearRangeCheck(year_range)
    IN  IF check = "raise" THEN [raised |-> TRUE, rows |-> <<>>]
        ELSE IF check = "apply"
        THEN [raised |-> FALSE,
              rows |-> SelectSeq(byDist, LAMBDA r :
                          YearMask(r, year_range.val[1], year_range.val[2]))]
        ELSE [raised |-> FALSE, rows |-> byDist]

\* variant: the selections assigned to the global df
GlobalAfterFilterInPlace(table, rows) == rows

\* the module-level df once filter_data has run: filter_data binds only its
\* local name dff, to a copy and then to new selections of it
GlobalAfterFilter(table, rows) == table

\* the five KPI values of update_dashboard
Kpis(dff) ==
    [total_worldwide |-> Sum(Column(dff, "Worldwide")),
     total_budget    |-> Sum(Column(dff, "Budget")),
     avg_roi         |-> Mean(Column(dff, "ROI")),
     max_opening     |-> Max(Column(dff, "OpeningWeekendNorthAmerica")),
     movie_count     |-> NUnique(dff, "Title")]

NoKpis ==
    [total_worldwide |-> Num(0), total_budget |-> Num(0), avg_roi |-> NaN,
     max_opening |-> NaN, movie_count |-> 0]

\* the data frame handed to the bar chart of Worldwide by Distributor
BarDistData(dff_dist, kind) == SortValuesDesc(dff_dist, "Worldwide", kind)

\* variant: rows without a ROI dropped before the sort
RoiDataDropNa(dff, kind) ==
    SortValuesDesc(SelectSeq(dff, LAMBDA r : ~IsNaN(r.ROI)), "ROI", kind)

\* dff.sort_values("ROI", ascending=False)
RoiData(dff, kind) == SortValuesDesc(dff, "ROI", kind)

\* the number of rows update_dashboard keeps for its last chart
TopN == 10

\* variant: .tail(10)
Top10DataTail(dff, kind) ==
    LET sorted == SortValuesDesc(dff, "Worldwide", kind)
    IN  IF Len(sorted) <= TopN THEN sorted
        ELSE SubSeq(sorted, Len(sorted) - TopN + 1, Len(sorted))

\* dff.sort_values("Worldwide", ascending=False).head(10)
Top10Data(dff, kind) == HeadRows(SortValuesDesc(dff, "Worldwide", kind), TopN)

\* the frame of one invocation of update_dashboard: where it is, its two
\* arguments and its local variables
IdleFrame ==
    [pc |-> "idle", distributors |-> None, year_range |-> None, dff |-> <<>>,
     kpis |-> NoKpis, dff_dist |-> <<>>, bar_dist |-> <<>>, dff_roi |-> <<>>,
     dff_year |-> <<>>, dff_top10 |-> <<>>]

\* update_dashboard run from its first line to its return on table
update_dashboard(table, distributors, year_range, kind) ==
    LET f == filter_data(table, distributors, year_range)
        dff == f.rows
        dff_dist == GroupByDistributor(dff)
    IN  IF f.raised
        THEN [IdleFrame EXCEPT !.pc = "raised", !.distributors = distributors,
                               !.year_range = year_range]
        ELSE [pc |-> "done", distributors |-> distributors,
              year_range |-> year_range, dff |-> dff, kpis |-> Kpis(dff),
              dff_dist |-> dff_dist, bar_dist |-> BarDistData(dff_dist, kind),
              dff_roi |-> RoiData(dff, kind), dff_year |-> GroupByYear(dff),
              dff_top10 |-> Top10Data(dff, kind)]

----------------------------------------------------------------------------
(* Source tables and callback arguments the model draws from.              *)

\* all tables of at most n rows over a set of rows
Tables(pool, n) == UNION {[1..k -> pool] : k \in 0..n}

\* tie orders an argsort may produce
SortKinds == {"stable", "reversed"}

\* <<Title, Budget, OpeningWeekendNorthAmerica, Worldwide>>: ROI 2, ROI 0,
\* a zero Budget (ROI +inf) with no opening figure, and no Budget or Worldwide
Figures ==
    {<<"T1", Num(100), Num(50), Num(300)>>,
     <<"T2", Num(200), Num(80), Num(200)>>,
     <<"T3", Num(0), NaN, Num(300)>>,
     <<"T4", NaN, Num(50), NaN>>}

RowPool ==
    {MakeRow(m[1], dist, date, m[2], m[3], m[4]) :
        m \in Figures, dist \in {"A", "B", DNull},
        date \in {Date(2012), Date(2015), NaT}}

YearBounds == {2012, 2015, 2016}

\* year_range: None, lists of 0, 1 and 3 bounds, and every pair of bounds
YearRanges ==
    {None, List(<<>>), List(<<2012>>), List(<<2012, 2015, 2016>>)}
        \cup {List(<<a, b>>) : a \in YearBounds, b \in YearBounds}

DistributorLists == {None, List(<<>>), List(<<"A">>), List(<<"A", "B">>)}

\* the two movies of the scenario of the specification
ScenarioPool ==
    {MakeRow("T1", "A", Date(2012), Num(100), Num(50), Num(300)),
     MakeRow("T2", "B", Date(2015), Num(200), Num(80), Num(200))}

\* <<distributors, year_range>> of the invocations that are interleaved
ScenarioArgs ==
    {<<List(<<>>), None>>,
     <<List(<<>>), List(<<2012, 2012>>)>>,
     <<List(<<"A">>), List(<<2012, 2015>>)>>}

\* nine fixed movies, and the rows put in front of them
Fixture ==
    <<MakeRow("F1", "A", Date(2010), Num(100), Num(90), Num(700)),
      MakeRow("F2", "B", Date(2012), Num(100), Num(20), Num(100)),
      MakeRow("F3", "A", Date(2012), Num(200), Num(60), Num(300)),
      MakeRow("F4", "B", Date(2013), Num(100), NaN, NaN),
      MakeRow("F5", "A", Date(2013), Num(0), Num(70), Num(500)),
      MakeRow("F6", "B", Date(2015), Num(100), Num(40), Num(300)),
      MakeRow("F7", "A", Date(2015), Num(200), Num(95), Num(800)),
      MakeRow("F8", "B", Date(2018), NaN, Num(30), Num(200)),
      MakeRow("F9", "A", Date(2018), Num(300), Num(85), Num(600))>>

LongPool ==
    {MakeRow(m[1], dist, Date(2012), Num(100), Num(50), m[2]) :
        m \in {<<"L1", Num(50)>>, <<"L2", Num(450)>>, <<"L3", Num(900)>>, <<"L4", NaN>>},
        dist \in {"A", "C"}}

LongYearRanges == {None, List(<<2012, 2015>>)}

LongDistributorLists == {List(<<>>), List(<<"A", "C">>)}

----------------------------------------------------------------------------
(* The state machine.                                                      *)

CallIds == 1..NumCalls

\* variant: dff kept in one module-level slot, the first invocation's
SharedDff(i) == calls[1].dff

\* the local dff of invocation i
LocalDff(i) == calls[i].dff

Returned(i) == calls[i].pc \in {"idle", "done", "raised"}

\* the controller calls update_dashboard(distributors, year_range)
Invoke(i, distributors, year_range) ==
    /\ Returned(i)
    /\ calls' = [calls EXCEPT ![i] = [IdleFrame EXCEPT !.pc = "filter",
                     !.distributors = distributors, !.year_range = year_range]]
    /\ UNCHANGED <<df, sortKind>>

\* dff = filter_data(distributors, year_range)
FilterStep(i) ==
    /\ calls[i].pc = "filter"
    /\ LET f == filter_data(df, calls[i].distributors, calls[i].year_range)
       IN  /\ calls' = [calls EXCEPT ![i].dff = f.rows,
                            ![i].pc = IF f.raised THEN "raised" ELSE "kpi"]
           /\ df' = GlobalAfterFilter(df, f.rows)
    /\ UNCHANGED sortKind

\* total_worldwide ... movie_count
KpiStep(i) ==
    /\ calls[i].pc = "kpi"
    /\ calls' = [calls EXCEPT ![i].kpis = Kpis(LocalDff(i)), ![i].pc = "dist"]
    /\ UNCHANGED <<df, sortKind>>

\* dff_dist and the sorted frame of its bar chart
DistStep(i) ==
    /\ calls[i].pc = "dist"
    /\ LET d == GroupByDistributor(LocalDff(i))
       IN  calls' = [calls EXCEPT ![i].dff_dist = d,
                        ![i].bar_dist = BarDistData(d, sortKind), ![i].pc = "roi"]
    /\ UNCHANGED <<df, sortKind>>

\* dff_roi
RoiStep(i) ==
    /\ calls[i].pc = "roi"
    /\ calls' = [calls EXCEPT ![i].dff_roi = RoiData(LocalDff(i), sortKind),
                     ![i].pc = "year"]
    /\ UNCHANGED <<df, sortKind>>

\* dff_year
YearStep(i) ==
    /\ calls[i].pc = "year"
    /\ calls' = [calls EXCEPT ![i].dff_year = GroupByYear(LocalDff(i)),
                     ![i].pc = "top10"]
    /\ UNCHANGED <<df, sortKind>>

\* dff_top10, and the return
Top10Step(i) ==
    /\ calls[i].pc = "top10"
    /\ calls' = [calls EXCEPT ![i].dff_top10 = Top10Data(LocalDff(i), sortKind),
                     ![i].pc = "done"]
    /\ UNCHANGED <<df, sortKind>>

\* one whole invocation, with no other invocation in between
UpdateDashboard(i, distributors, year_range) ==
    /\ Returned(i)
    /\ LET f == filter_data(df, distributors, year_range)
       IN  /\ calls' = [calls EXCEPT ![i] =
                            update_dashboard(df, distributors, year_range, sortKind)]
           /\ df' = GlobalAfterFilter(df, f.rows)
    /\ UNCHANGED sortKind

InitWith(tables) ==
    /\ df \in {t \in tables : LayoutOk(t)}
    /\ sortKind \in SortKinds
    /\ calls = [i \in CallIds |-> IdleFrame]

\* invocations interleaved statement by statement, on the scenario's movies
Init == InitWith(Tables(ScenarioPool, MaxRows))

Next ==
    \E i \in CallIds :
        \/ \E a \in ScenarioArgs : Invoke(i, a[1], a[2])
        \/ FilterStep(i)
        \/ KpiStep(i)
        \/ DistStep(i)
        \/ RoiStep(i)
        \/ YearStep(i)
        \/ Top10Step(i)

Spec == Init /\ [][Next]_vars

\* one invocation, on every loadable table over RowPool
InitSeq == InitWith(Tables(RowPool, MaxRows))

NextSeq ==
    \E d \in DistributorLists, y \in YearRanges :
        calls[1].pc = "idle" /\ UpdateDashboard(1, d, y)

SpecSeq == InitSeq /\ [][NextSeq]_vars

\* one invocation, on tables of nine to eleven rows
InitLong == InitWith({v \o Fixture : v \in Tables(LongPool, MaxRows)})

NextLong ==
    \E d \in LongDistributorLists, y \in LongYearRanges :
        calls[1].pc = "idle" /\ UpdateDashboard(1, d, y)

SpecLong == InitLong /\ [][NextLong]_vars

----------------------------------------------------------------------------
(* Properties.  The definitions below describe the expected results       *)
(* directly, from the rows of df and the arguments of an invocation.       *)

Done(i) == calls[i].pc = "done"

Finished(i) == calls[i].pc \in {"done", "raised"}

TwoBounds(year_range) == ~year_range.none /\ Len(year_range.val) = 2

\* Year is a number between a and b, both included
YearWithin(row, a, b) ==
    /\ row.Year.kind = "fin"
    /\ a * row.Year.d <= row.Year.n
    /\ row.Year.n <= b * row.Year.d

DistributorAmong(row, distributors) ==
    row.Distributor \in {distributors.val[k] : k \in DOMAIN distributors.val}

\* how many times a row occurs in a table
Occurrences(r, t) == Cardinality({k \in DOMAIN t : t[k] = r})

RowSet(t) == {t[k] : k \in DOMAIN t}

SameRows(s, t) ==
    \A r \in RowSet(s) \cup RowSet(t) : Occurrences(r, s) = Occurrences(r, t)

\* no later row has a larger value of col than an earlier one
Descending(t, col) ==
    \A j \in DOMAIN t : \A k \in DOMAIN t : j < k => ~FLt(t[j][col], t[k][col])

RECURSIVE WorldwideFrom(_, _)
WorldwideFrom(t, k) ==
    IF k > Len(t) THEN 0
    ELSE (IF t[k].Worldwide.kind = "fin" THEN t[k].Worldwide.n ELSE 0)
            + WorldwideFrom(t, k + 1)

\* the total of the whole-number Worldwide cells of a table
WorldwideTotal(t) == WorldwideFrom(t, 1)

\* C1: with a non-empty distributor list D and a two-bound year range (a, b),
\* filter_data returns exactly the rows of df whose Distributor is in D and
\* whose Year is a number with a <= Year <= b, in the order of df
C1_FilterExact ==
    \A i \in CallIds :
        (/\ Done(i)
         /\ Truthy(calls[i].distributors)
         /\ TwoBounds(calls[i].year_range))
        => calls[i].dff =
             SelectSeq(df, LAMBDA r :
                /\ DistributorAmong(r, calls[i].distributors)
                /\ YearWithin(r, calls[i].year_range.val[1], calls[i].year_range.val[2]))

\* a filter with a distributor list and the range (2015, 2015) that kept a row
\* of 2015 and dropped another row
C1_Witness ==
    /\ Done(1)
    /\ Truthy(calls[1].distributors)
    /\ calls[1].year_range = List(<<2015, 2015>>)
    /\ Len(calls[1].dff) > 0
    /\ Len(calls[1].dff) < Len(df)

\* C2: with an empty distributor selection (None or an empty list), filter_data
\* returns what it returns for the list of all distributors of df
C2_EmptyMeansAll ==
    \A i \in CallIds :
        (Done(i) /\ ~Truthy(calls[i].distributors))
        => calls[i].dff =
             filter_data(df, List(DistributorOptions(df)), calls[i].year_range).rows

\* an empty list on a table of two distributors, with a two-bound year range
\* that keeps rows of both
C2_Witness ==
    /\ Done(1)
    /\ calls[1].distributors = List(<<>>)
    /\ TwoBounds(calls[1].year_range)
    /\ Cardinality(Unique(df, "Distributor")) = 2
    /\ Cardinality(Unique(calls[1].dff, "Distributor")) = 2

\* C3: with year_range None, empty or of a length other than two, filter_data
\* does not raise and returns the rows the distributor selection alone keeps
C3_NoYearFilter ==
    \A i \in CallIds :
        (Finished(i) /\ ~TwoBounds(calls[i].year_range))
        => /\ Done(i)
           /\ calls[i].dff =
                IF Truthy(calls[i].distributors)
                THEN SelectSeq(df, LAMBDA r : DistributorAmong(r, calls[i].distributors))
                ELSE df

\* a one-bound range (2012) that kept a row of 2015
C3_Witness ==
    /\ Done(1)
    /\ calls[1].year_range = List(<<2012>>)
    /\ Truthy(calls[1].distributors)
    /\ \E k \in DOMAIN calls[1].dff : calls[1].dff[k].Year = Num(2015)

\* C4: no step of any invocation changes the source table df
C4_SourceUnchanged == [][df' = df]_vars

\* an invocation has returned whose filter dropped rows of df
C4_Witness ==
    \E i \in CallIds : Done(i) /\ Len(calls[i].dff) < Len(df)

\* C5: whatever ran before it or between its steps, an invocation returns
\* what update_dashboard run alone on df returns for its two arguments
C5_Stateless ==
    \A i \in CallIds :
        Done(i) => calls[i] = update_dashboard(df, calls[i].distributors,
                                               calls[i].year_range, sortKind)

\* two invocations with different arguments have both returned, with
\* different subsets
C5_Witness ==
    /\ NumCalls >= 2
    /\ Done(1)
    /\ Done(2)
    /\ calls[1].distributors # calls[2].distributors
    /\ calls[1].dff # calls[2].dff
    /\ Len(calls[1].dff) > 0
    /\ Len(calls[2].dff) > 0

\* C6: the Worldwide column of by_distributor sums to total_worldwide
C6_GroupedSumIsTotal ==
    \A i \in CallIds :
        Done(i) => FEq(Sum(Column(calls[i].dff_dist, "Worldwide")),
                       calls[i].kpis.total_worldwide)

\* C7: top10_worldwide has min(10, size) rows, all rows of the subset, in
\* descending order of Worldwide, and no row left out has a larger Worldwide
\* than a row kept
C7_Top10 ==
    \A i \in CallIds :
        Done(i) =>
            LET dff == calls[i].dff
                top == calls[i].dff_top10
            IN  /\ Len(top) = (IF Len(dff) < 10 THEN Len(dff) ELSE 10)
                /\ Len(top) <= 10
                /\ \A r \in RowSet(top) : Occurrences(r, top) <= Occurrences(r, dff)
                /\ Descending(top, "Worldwide")
                /\ \A r \in RowSet(dff) :
                      Occurrences(r, top) < Occurrences(r, dff)
                      => \A k \in DOMAIN top : ~FLt(top[k].Worldwide, r.Worldwide)

\* a subset of more than ten rows, not in descending order, cut to ten
C7_Witness ==
    /\ Done(1)
    /\ Len(calls[1].dff) > 10
    /\ Len(calls[1].dff_top10) = 10
    /\ ~Descending(calls[1].dff, "Worldwide")
    /\ \E k \in DOMAIN calls[1].dff : IsNaN(calls[1].dff[k].Worldwide)

\* C8: by_roi holds every row of the subset exactly once, in descending order
\* of ROI (rows without a ROI are kept, at the end)
C8_ByRoi ==
    \A i \in CallIds :
        Done(i) => /\ SameRows(calls[i].dff_roi, calls[i].dff)
                   /\ Len(calls[i].dff_roi) = Len(calls[i].dff)
                   /\ Descending(calls[i].dff_roi, "ROI")

\* a subset with an infinite ROI, a missing ROI and two finite ones, not in
\* descending order
C8_Witness ==
    /\ Done(1)
    /\ \E k \in DOMAIN calls[1].dff : calls[1].dff[k].ROI = PosInf
    /\ \E k \in DOMAIN calls[1].dff : IsNaN(calls[1].dff[k].ROI)
    /\ ~Descending(calls[1].dff, "ROI")
    /\ calls[1].dff_roi # calls[1].dff

\* whether no row of a table passes the two filters of filter_data
MatchesNone(t, distributors, year_range) ==
    \A k \in DOMAIN t :
        \/ Truthy(distributors) /\ ~DistributorAmong(t[k], distributors)
        \/ /\ TwoBounds(year_range)
           /\ ~YearWithin(t[k], year_range.val[1], year_range.val[2])

\* C9: when no row matches, update_dashboard returns without raising, with
\* movie_count, total_worldwide and total_budget 0 and by_distributor,
\* by_year and top10_worldwide empty
C9_EmptySubset ==
    \A i \in CallIds :
        (Finished(i) /\ MatchesNone(df, calls[i].distributors, calls[i].year_range))
        => /\ Done(i)
           /\ calls[i].kpis.movie_count = 0
           /\ calls[i].kpis.total_worldwide = Num(0)
           /\ calls[i].kpis.total_budget = Num(0)
           /\ calls[i].dff_dist = <<>>
           /\ calls[i].bar_dist = <<>>
           /\ calls[i].dff_year = <<>>
           /\ calls[i].dff_top10 = <<>>

\* a range with min > max on a table that has a row of each bound
C9_Witness ==
    /\ Done(1)
    /\ calls[1].year_range = List(<<2015, 2012>>)
    /\ \E k \in DOMAIN df : df[k].Year = Num(2012)
    /\ \E k \in DOMAIN df : df[k].Year = Num(2015)
    /\ calls[1].dff = <<>>

\* C10: the bar chart's by_distributor rows are one per Distributor of the
\* subset, each with the total Worldwide of its rows, in descending order of
\* that total; the by_year rows are one per Year of the subset, each with the
\* total Worldwide of its rows, in strictly ascending order of Year
C10_GroupedOrder ==
    \A i \in CallIds :
        Done(i) =>
            LET dff == calls[i].dff
                bar == calls[i].bar_dist
                byYear == calls[i].dff_year
                names == Unique(dff, "Distributor") \ {DNull}
                years == {y \in Unique(dff, "Year") : ~IsNaN(y)}
            IN  /\ Len(bar) = Cardinality(names)
                /\ {bar[k].Distributor : k \in DOMAIN bar} = names
                /\ \A k \in DOMAIN bar :
                      bar[k].Worldwide =
                        Num(WorldwideTotal(SelectSeq(dff, LAMBDA r :
                                              r.Distributor = bar[k].Distributor)))
                /\ Descending(bar, "Worldwide")
                /\ Len(byYear) = Cardinality(years)
                /\ {byYear[k].Year : k \in DOMAIN byYear} = years
                /\ \A k \in DOMAIN byYear :
                      byYear[k].Worldwide =
                        Num(WorldwideTotal(SelectSeq(dff, LAMBDA r :
                                              r.Year = byYear[k].Year)))
                /\ \A j \in DOMAIN byYear : \A k \in DOMAIN byYear :
                      j < k => FLt(byYear[j].Year, byYear[k].Year)

\* three distributors whose totals are not in name order, and four years
\* whose rows are not in year order
C10_Witness ==
    /\ Done(1)
    /\ Len(calls[1].bar_dist) = 3
    /\ calls[1].bar_dist # calls[1].dff_dist
    /\ Len(calls[1].dff_year) >= 4
    /\ \E j \in DOMAIN calls[1].dff : \E k \in DOMAIN calls[1].dff :
          j < k /\ FLt(calls[1].dff[k].Year, calls[1].dff[j].Year)

============================================================================
